---- MODULE Spec2Model ----
(***************************************************************************)
(* The local encrypted data store of the finance tracker: the Record Store *)
(* (DataManager, src/js/data-manager.js) over localStorage and the         *)
(* Security Session (SecurityManager, src/js/security.js) with its enable, *)
(* disable, change-password and startup-unlock flows.                      *)
(*                                                                         *)
(* JavaScript values are records of one shape, so that any two compare:    *)
(*   t = "null"     null                                                   *)
(*   t = "obj"      a JSON object: its encryptionEnabled property (enc:    *)
(*                  "true", "false" or "undef" when it has none) and the   *)
(*                  rest of its content (body: 0 is {}, 1 the default      *)
(*                  shape of the RecordSet, 2.. other contents)            *)
(*   t = "promise"  a Promise, as an async function returns it: own        *)
(*                  property encryptionEnabled (enc), how it settles       *)
(*                  (settle) and, when fulfilled, with which content       *)
(*                  (senc, body).                                          *)
(* A stored entry (one localStorage string) is a record too:               *)
(*   form = "absent"    getItem returns null                               *)
(*   form = "plain"     JSON text of the object (enc, body)                *)
(*   form = "envelope"  base64(iv || AES-GCM ciphertext under key) of the  *)
(*                      JSON text of (enc, body)                           *)
(*   form = "promise"   the text "[object Promise]"                        *)
(*   form = "null"      the text "null"                                    *)
(***************************************************************************)
EXTENDS Integers, Sequences, FiniteSets, TLC

\* ------------------------------------------------------------------ bounds
\* The RecordSet names in play (the first NumNames of NameSeq), the contents a
\* consumer may write besides the default shape, the passwords a user may
\* type, and the flows that may be in flight at once (the handlers carry no
\* guard: above 1 they interleave at their awaits).
NumNames == 2
NumVals == 1
NumPasswords == 2
MaxFlows == 2

maxAttempts == 3

\* ------------------------------------------------------------------ names
NameSeq == <<"settings", "assets", "expenses", "income", "goals", "categories", "custom">>

DefaultNames == {"assets", "expenses", "income", "goals", "categories", "settings"}

Names == {NameSeq[i] : i \in {j \in 1..Len(NameSeq) : j <= NumNames}}

\* ------------------------------------------------------------------ values
Encs == {"true", "false", "undef"}

Null == [t |-> "null", enc |-> "undef", body |-> 0, settle |-> "none", senc |-> "undef"]

Obj(e, b) == [t |-> "obj", enc |-> e, body |-> b, settle |-> "none", senc |-> "undef"]

Rejected == [t |-> "promise", enc |-> "undef", body |-> 0, settle |-> "rejected", senc |-> "undef"]

Fulfilled(e, b) == [t |-> "promise", enc |-> "undef", body |-> b, settle |-> "fulfilled", senc |-> e]

\* The contents a consumer writes into a data RecordSet.
UserValues == {Obj("undef", b) : b \in 2..(1 + NumVals)}

\* !x of JavaScript: null is falsy, an object and a Promise are truthy.
Truthy(x) == x.t # "null"

\* settings.encryptionEnabled = b: an own property on an object or a Promise.
WithFlag(x, e) == [x EXCEPT !.enc = e]

\* ------------------------------------------------------------------ keys
Passwords == 1..NumPasswords

\* promptForPassword resolves null on Cancel and "" on an empty Confirm: both falsy.
Cancel == 0

Inputs == Passwords \cup {Cancel}

NoKey == <<>>

deriveKey(password) == <<"PBKDF2", password>>

Keys == {deriveKey(p) : p \in Passwords}

\* ------------------------------------------------------------------ entries
Absent == [form |-> "absent", key |-> NoKey, enc |-> "undef", body |-> 0]

PromiseText == [form |-> "promise", key |-> NoKey, enc |-> "undef", body |-> 0]

PlainText(e, b) == [form |-> "plain", key |-> NoKey, enc |-> e, body |-> b]

Envelope(k, e, b) == [form |-> "envelope", key |-> k, enc |-> e, body |-> b]

NullText == [form |-> "null", key |-> NoKey, enc |-> "undef", body |-> 0]

\* JSON.stringify(data): an object gives its text; a Promise has no enumerable
\* content but the properties set on it, so it gives {} or {"encryptionEnabled":..}.
JSONstringify(data) ==
    IF data.t = "obj" THEN PlainText(data.enc, data.body)
    ELSE IF data.t = "promise" THEN PlainText(data.enc, 0)
    ELSE NullText

\* JSON.parse(text): [ok, val]; base64 text and "[object Promise]" are no JSON.
JSONparse(entry) ==
    IF entry.form = "plain" THEN [ok |-> TRUE, val |-> Obj(entry.enc, entry.body)]
    ELSE IF entry.form = "null" THEN [ok |-> TRUE, val |-> Null]
    ELSE [ok |-> FALSE, val |-> Null]

\* ------------------------------------------------------------------ cipher
\* decryptData under a cipher mode that does not authenticate: any envelope
\* decrypts under any key.
SMdecryptDataUnauthenticated(key, entry) ==
    IF key = NoKey THEN [ok |-> FALSE, val |-> Null]
    ELSE IF entry.form = "envelope"
         THEN [ok |-> TRUE, val |-> Obj(entry.enc, entry.body)]
         ELSE [ok |-> FALSE, val |-> Null]

\* SecurityManager.decryptData(text) with this.encryptionKey = key: the settled
\* outcome of the async call, [ok, val]. It throws without a key, when atob
\* rejects the text (JSON text of an object, "[object Promise]"), and when
\* AES-GCM authentication fails (another key).
SMdecryptData(key, entry) ==
    IF key = NoKey THEN [ok |-> FALSE, val |-> Null]
    ELSE IF entry.form = "envelope" /\ entry.key = key
         THEN [ok |-> TRUE, val |-> Obj(entry.enc, entry.body)]
         ELSE [ok |-> FALSE, val |-> Null]

\* SecurityManager.encryptData(data) with this.encryptionKey = key: the text the
\* returned Promise fulfils with.
SMencryptData(key, data) ==
    LET text == JSONstringify(data) IN Envelope(key, text.enc, text.body)

\* ------------------------------------------------------------------ state
VARIABLES
    localStorage,   \* [Names -> entry]: the strings under financeTracker_<name>
    dm,             \* DataManager: encryptionKey, isEncrypted
    sm,             \* SecurityManager: isEncryptionEnabled, encryptionKey
    flows,          \* the async flows in flight, each at its await
    locked,         \* lockApp has replaced document.body
    pwSet,          \* history: the password of the last completed enable or
                    \* change-password not followed by a completed disable (0: none)
    notice          \* what the handler that returned or reported last told the
                    \* user: its kind and the message of its showAlert ("" when
                    \* it returned without one)

vars == <<localStorage, dm, sm, flows, locked, pwSet, notice>>

NoNotice == [kind |-> "none", message |-> ""]

\* SecurityManager.showAlert(message, type) called by the handler of this kind.
showAlert(kind, message) == [kind |-> kind, message |-> message]

\* The handler of this kind returned without a message.
Silent(kind) == [kind |-> kind, message |-> ""]

\* ------------------------------------------------------------------ Record Store
\* The overrides installed at DOMContentLoaded. They consult the
\* SecurityManager's flag and key, not the DataManager's; an async method
\* called without await hands back its Promise.
DMdecryptData(entry, s) ==
    IF s.isEncryptionEnabled /\ s.encryptionKey # NoKey
    THEN LET r == SMdecryptData(s.encryptionKey, entry)
         IN  [ok |-> TRUE,
              val |-> IF r.ok THEN Fulfilled(r.val.enc, r.val.body) ELSE Rejected]
    ELSE JSONparse(entry)

DMencryptData(data, s) ==
    IF s.isEncryptionEnabled /\ s.encryptionKey # NoKey
    THEN [isPromise |-> TRUE, text |-> SMencryptData(s.encryptionKey, data)]
    ELSE [isPromise |-> FALSE, text |-> JSONstringify(data)]

\* DataManager.getData(key): the value returned.
getData(ls, key, d, s) ==
    LET data == ls[key]
        r == IF d.isEncrypted /\ d.encryptionKey # NoKey
             THEN DMdecryptData(data, s)
             ELSE JSONparse(data)
    IN  IF data.form = "absent" THEN Null
        ELSE IF r.ok THEN r.val
        ELSE Null

\* setData awaiting the Promise that encryptData returns: the envelope is stored.
setDataTextAwaited(data, d, s) ==
    IF d.isEncrypted /\ d.encryptionKey # NoKey
    THEN DMencryptData(data, s).text
    ELSE JSONstringify(data)

\* The string DataManager.setData(key, data) hands to localStorage.setItem,
\* which stores String(x): a Promise becomes the text "[object Promise]".
setDataText(data, d, s) ==
    LET r == IF d.isEncrypted /\ d.encryptionKey # NoKey
             THEN DMencryptData(data, s)
             ELSE [isPromise |-> FALSE, text |-> JSONstringify(data)]
    IN  IF r.isPromise THEN PromiseText ELSE r.text

\* DataManager.setData(key, data): localStorage afterwards.
setData(ls, key, data, d, s) == [ls EXCEPT ![key] = setDataText(data, d, s)]

\* DataManager.setData(key, data) with its return value; throws says whether
\* localStorage.setItem throws (the quota is exhausted), which the catch turns
\* into false with nothing stored.
setDataOutcome(ls, key, data, d, s, throws) ==
    IF throws THEN [ls |-> ls, result |-> FALSE]
    ELSE [ls |-> setData(ls, key, data, d, s), result |-> TRUE]

removeData(ls, key) == [ls EXCEPT ![key] = Absent]

getAllKeys(ls) == {n \in DOMAIN ls : ls[n].form # "absent"}

Default(n) == IF n = "settings" THEN Obj("false", 1) ELSE Obj("undef", 1)

\* Each default name is tested and written on its own, so the six steps are
\* one map over the names.
initializeDefaults(ls, d, s) ==
    [n \in DOMAIN ls |->
        IF n \in DefaultNames /\ ~Truthy(getData(ls, n, d, s))
        THEN setDataText(Default(n), d, s)
        ELSE ls[n]]

\* DataManager.clearAllData(): every listed name is removed, then the defaults
\* are written.
clearAllData(ls, d, s) ==
    initializeDefaults([n \in DOMAIN ls |-> IF n \in getAllKeys(ls) THEN Absent ELSE ls[n]],
                       d, s)

NewDataManager == [encryptionKey |-> NoKey, isEncrypted |-> FALSE]

setEncryptionKey(key) == [encryptionKey |-> key, isEncrypted |-> TRUE]

removeEncryption == [encryptionKey |-> NoKey, isEncrypted |-> FALSE]

\* ------------------------------------------------------------------ Security Session
NewSecurityManager == [isEncryptionEnabled |-> FALSE, encryptionKey |-> NoKey]

\* SecurityManager.verifyPassword(key): [result, threw, sm afterwards]. The
\* whole body is inside try/catch, so nothing reaches the caller as an
\* exception. The candidate is put in this.encryptionKey for the trial
\* decryption and the saved key is put back only on the path where
\* decryptData does not throw.
verifyPassword(ls, s, key) ==
    LET encryptedSettings == ls["settings"]
        r == SMdecryptData(key, encryptedSettings)
    IN  IF encryptedSettings.form = "absent"
        THEN [result |-> TRUE, threw |-> FALSE, sm |-> s]
        ELSE IF r.ok
        THEN [result |-> TRUE, threw |-> FALSE, sm |-> s]
        ELSE [result |-> FALSE, threw |-> FALSE, sm |-> [s EXCEPT !.encryptionKey = key]]

\* SecurityManager.reencryptAllData(): localStorage afterwards. Every listed
\* name is read and, when the value read is truthy, written back; a name's
\* step touches that name's entry alone.
reencryptAllData(ls, d, s) ==
    [n \in DOMAIN ls |->
        IF n \in getAllKeys(ls) /\ Truthy(getData(ls, n, d, s))
        THEN setDataText(getData(ls, n, d, s), d, s)
        ELSE ls[n]]

\* SecurityManager.decryptAllData() from its loop on: the names still to do
\* (in the order of NameSeq), with the DataManager's encryption already
\* removed. [ls, sm] afterwards. A decryptData that throws is logged and the
\* entry is left as it is, with tempKey left in this.encryptionKey.
RECURSIVE decryptLoop(_, _, _, _, _)
decryptLoop(i, keys, ls, s, tempKey) ==
    IF i > Len(NameSeq) THEN [ls |-> ls, sm |-> s]
    ELSE IF NameSeq[i] \notin keys THEN decryptLoop(i + 1, keys, ls, s, tempKey)
    ELSE LET key == NameSeq[i]
             r == SMdecryptData(tempKey, ls[key])
         IN  IF r.ok
             THEN decryptLoop(i + 1, keys,
                     setData(ls, key, r.val, removeEncryption,
                             [s EXCEPT !.encryptionKey = NoKey]),
                     [s EXCEPT !.encryptionKey = NoKey], tempKey)
             ELSE decryptLoop(i + 1, keys, ls,
                     [s EXCEPT !.encryptionKey = tempKey], tempKey)

decryptAllData(ls, s) == decryptLoop(1, getAllKeys(ls), ls, s, s.encryptionKey)

\* ------------------------------------------------------------------ flows
\* An async flow suspended at an await: kind is the handler, pc the await it
\* sits at ("password", "confirm", "new": a promptForPassword; "derive": the
\* PBKDF2 derivation of pw), pw the password it holds, attempts the counter of
\* requestPassword.
NoFlow == [kind |-> "none", pc |-> "none", pw |-> Cancel, attempts |-> 0]

Flow(k, p, w, a) == [kind |-> k, pc |-> p, pw |-> w, attempts |-> a]

Slots == 1..MaxFlows

\* A handler that starts takes the first free slot.
FreeSlot(i) == flows[i] = NoFlow /\ \A j \in 1..(i - 1) : flows[j] # NoFlow

At(i, k, p) == flows[i].kind = k /\ flows[i].pc = p

Idle == \A i \in Slots : flows[i] = NoFlow

\* SecurityManager.loadEncryptionState(): the flag of a new SecurityManager.
loadEncryptionState(ls, d) ==
    LET settings == getData(ls, "settings", d, NewSecurityManager)
    IN  Truthy(settings) /\ settings.enc = "true"

\* The page loads: window.dataManager = new DataManager() over the storage
\* left behind, then new SecurityManager() at DOMContentLoaded, which starts
\* requestPassword when the settings say so. Everything in memory is new.
PageLoad(ls) ==
    LET ls1 == initializeDefaults(ls, NewDataManager, NewSecurityManager)
        enabled == loadEncryptionState(ls1, NewDataManager)
    IN  /\ localStorage' = ls1
        /\ dm' = NewDataManager
        /\ sm' = [NewSecurityManager EXCEPT !.isEncryptionEnabled = enabled]
        /\ flows' = [i \in Slots |->
                        IF i = 1 /\ enabled THEN Flow("startup", "password", Cancel, 0)
                        ELSE NoFlow]
        /\ locked' = FALSE
        /\ notice' = NoNotice

Init ==
    /\ localStorage = initializeDefaults([n \in Names |-> Absent],
                                         NewDataManager, NewSecurityManager)
    /\ dm = NewDataManager
    /\ sm = NewSecurityManager
    /\ flows = [i \in Slots |-> NoFlow]
    /\ locked = FALSE
    /\ pwSet = 0
    /\ notice = NoNotice

Reload ==
    /\ PageLoad(localStorage)
    /\ UNCHANGED pwSet

\* ------------------------------------------------------------------ Record Store operations
\* A consumer's write of a data RecordSet (the settings are written by
\* initializeDefaults and by the Security Session only). Storage may refuse it.
SetData ==
    \E n \in DOMAIN localStorage \ {"settings"}, v \in UserValues, throws \in BOOLEAN :
        /\ ~locked
        /\ localStorage' = setDataOutcome(localStorage, n, v, dm, sm, throws).ls
        /\ UNCHANGED <<dm, sm, flows, locked, pwSet, notice>>

RemoveData ==
    \E n \in DOMAIN localStorage :
        /\ ~locked
        /\ localStorage[n].form # "absent"
        /\ localStorage' = removeData(localStorage, n)
        /\ UNCHANGED <<dm, sm, flows, locked, pwSet, notice>>

ClearAllData ==
    /\ ~locked
    /\ localStorage' = clearAllData(localStorage, dm, sm)
    /\ UNCHANGED <<dm, sm, flows, locked, pwSet, notice>>

\* ------------------------------------------------------------------ enable
\* The click on toggleEncryption: enableEncryption or disableEncryption by the
\* session's flag, up to its first prompt.
ToggleEncryption ==
    \E i \in Slots :
        /\ ~locked
        /\ FreeSlot(i)
        /\ flows' = [flows EXCEPT ![i] =
                        IF ~sm.isEncryptionEnabled
                        THEN Flow("enable", "password", Cancel, 0)
                        ELSE Flow("disable", "password", Cancel, 0)]
        /\ UNCHANGED <<localStorage, dm, sm, locked, pwSet, notice>>

EnablePassword ==
    \E i \in Slots, password \in Inputs :
        /\ ~locked
        /\ At(i, "enable", "password")
        /\ flows' = [flows EXCEPT ![i] =
                        IF password = Cancel THEN NoFlow
                        ELSE Flow("enable", "confirm", password, 0)]
        /\ notice' = IF password = Cancel THEN Silent("enable") ELSE notice
        /\ UNCHANGED <<localStorage, dm, sm, locked, pwSet>>

\* enableEncryption without the comparison of the two passwords: whatever the
\* confirmation, the flow goes on to derive the key of the first password.
EnableConfirmWithUnchecked(i, confirmPassword) ==
    /\ ~locked
    /\ At(i, "enable", "confirm")
    /\ flows' = [flows EXCEPT ![i] = [flows[i] EXCEPT !.pc = "derive"]]
    /\ UNCHANGED <<localStorage, dm, sm, locked, pwSet, notice>>

\* enableEncryption resumed by its second prompt resolving with confirmPassword.
EnableConfirmWith(i, confirmPassword) ==
    /\ ~locked
    /\ At(i, "enable", "confirm")
    /\ IF flows[i].pw # confirmPassword
       THEN /\ flows' = [flows EXCEPT ![i] = NoFlow]
            /\ notice' = showAlert("enable", "Passwords do not match!")
       ELSE /\ flows' = [flows EXCEPT ![i] = [flows[i] EXCEPT !.pc = "derive"]]
            /\ notice' = notice
    /\ UNCHANGED <<localStorage, dm, sm, locked, pwSet>>

EnableConfirm ==
    \E i \in Slots, confirmPassword \in Inputs : EnableConfirmWith(i, confirmPassword)

\* enableEncryption from the derived key on, in program order: the session's
\* key is set and the sweep runs (swept), the settings are written with the
\* flag (flagged), the key is installed in the DataManager and the session's
\* flag is set (done).
enableEncryption(ls, d, s, key) ==
    LET sm1 == [s EXCEPT !.encryptionKey = key]
        ls1 == reencryptAllData(ls, d, sm1)
        got == getData(ls1, "settings", d, sm1)
        settings == WithFlag(IF Truthy(got) THEN got ELSE Obj("undef", 0), "true")
        ls2 == setData(ls1, "settings", settings, d, sm1)
    IN  [swept   |-> [ls |-> ls1, dm |-> d, sm |-> sm1],
         flagged |-> [ls |-> ls2, dm |-> d, sm |-> sm1],
         done    |-> [ls |-> ls2, dm |-> setEncryptionKey(key),
                      sm |-> [sm1 EXCEPT !.isEncryptionEnabled = TRUE]]]

EnableCommit ==
    \E i \in Slots :
        /\ At(i, "enable", "derive")
        /\ LET run == enableEncryption(localStorage, dm, sm, deriveKey(flows[i].pw))
           IN  /\ localStorage' = run.done.ls
               /\ dm' = run.done.dm
               /\ sm' = run.done.sm
        /\ pwSet' = flows[i].pw
        /\ notice' = showAlert("enable", "Encryption enabled successfully!")
        /\ flows' = [flows EXCEPT ![i] = NoFlow]
        /\ UNCHANGED locked

\* ------------------------------------------------------------------ disable
\* disableEncryption treating a declined prompt as requestPassword does: lockApp.
DisablePasswordLocking ==
    \E i \in Slots, password \in Inputs :
        /\ ~locked
        /\ At(i, "disable", "password")
        /\ flows' = [flows EXCEPT ![i] =
                        IF password = Cancel THEN NoFlow
                        ELSE Flow("disable", "derive", password, 0)]
        /\ locked' = (password = Cancel)
        /\ notice' = IF password = Cancel THEN Silent("disable") ELSE notice
        /\ UNCHANGED <<localStorage, dm, sm, pwSet>>

DisablePassword ==
    \E i \in Slots, password \in Inputs :
        /\ ~locked
        /\ At(i, "disable", "password")
        /\ flows' = [flows EXCEPT ![i] =
                        IF password = Cancel THEN NoFlow
                        ELSE Flow("disable", "derive", password, 0)]
        /\ notice' = IF password = Cancel THEN Silent("disable") ELSE notice
        /\ UNCHANGED <<localStorage, dm, sm, locked, pwSet>>

\* disableEncryption after a verification that passed, in program order:
\* decryptAllData removes the DataManager's encryption and sweeps (swept), the
\* settings are written with the flag (flagged), the session's flag and key
\* are cleared (done).
disableEncryption(ls, s) ==
    LET swept == decryptAllData(ls, s)
        got == getData(swept.ls, "settings", removeEncryption, swept.sm)
        settings == WithFlag(IF Truthy(got) THEN got ELSE Obj("undef", 0), "false")
        ls2 == setData(swept.ls, "settings", settings, removeEncryption, swept.sm)
    IN  [swept   |-> [ls |-> swept.ls, dm |-> removeEncryption, sm |-> swept.sm],
         flagged |-> [ls |-> ls2, dm |-> removeEncryption, sm |-> swept.sm],
         done    |-> [ls |-> ls2, dm |-> removeEncryption,
                      sm |-> [isEncryptionEnabled |-> FALSE, encryptionKey |-> NoKey]]]

\* disableEncryption from the derived key on: the verification and, when it
\* passes, the sweep, the flag and the removal of the key. No entry is an
\* envelope (NoEnvelopeStored), so every decryptData awaited here has thrown
\* before its first await and the step runs to its end within one task.
DisableCommit ==
    \E i \in Slots :
        /\ At(i, "disable", "derive")
        /\ LET key == deriveKey(flows[i].pw)
               v == verifyPassword(localStorage, sm, key)
               run == disableEncryption(localStorage, v.sm)
           IN  IF ~v.result
               THEN /\ sm' = v.sm
                    /\ notice' = showAlert("disable", "Incorrect password!")
                    /\ UNCHANGED <<localStorage, dm, pwSet>>
               ELSE /\ localStorage' = run.done.ls
                    /\ dm' = run.done.dm
                    /\ sm' = run.done.sm
                    /\ notice' = showAlert("disable", "Encryption disabled successfully!")
                    /\ pwSet' = 0
        /\ flows' = [flows EXCEPT ![i] = NoFlow]
        /\ UNCHANGED locked

\* ------------------------------------------------------------------ change password
\* The click on changePassword, up to the first prompt.
ShowChangePasswordModal ==
    /\ ~locked
    /\ IF ~sm.isEncryptionEnabled
       THEN /\ notice' = showAlert("change", "Encryption is not enabled.")
            /\ flows' = flows
       ELSE /\ \E i \in Slots :
                    /\ FreeSlot(i)
                    /\ flows' = [flows EXCEPT ![i] = Flow("change", "password", Cancel, 0)]
            /\ notice' = notice
    /\ UNCHANGED <<localStorage, dm, sm, locked, pwSet>>

ChangeCurrent ==
    \E i \in Slots, currentPassword \in Inputs :
        /\ ~locked
        /\ At(i, "change", "password")
        /\ flows' = [flows EXCEPT ![i] =
                        IF currentPassword = Cancel THEN NoFlow
                        ELSE Flow("change", "derive", currentPassword, 0)]
        /\ notice' = IF currentPassword = Cancel THEN Silent("change") ELSE notice
        /\ UNCHANGED <<localStorage, dm, sm, locked, pwSet>>

ChangeVerify ==
    \E i \in Slots :
        /\ At(i, "change", "derive")
        /\ LET v == verifyPassword(localStorage, sm, deriveKey(flows[i].pw))
           IN  /\ sm' = v.sm
               /\ flows' = [flows EXCEPT ![i] =
                               IF ~v.result THEN NoFlow
                               ELSE Flow("change", "new", Cancel, 0)]
               /\ notice' = IF ~v.result
                            THEN showAlert("change", "Incorrect current password!")
                            ELSE notice
        /\ UNCHANGED <<localStorage, dm, locked, pwSet>>

ChangeNew ==
    \E i \in Slots, newPassword \in Inputs :
        /\ ~locked
        /\ At(i, "change", "new")
        /\ flows' = [flows EXCEPT ![i] =
                        IF newPassword = Cancel THEN NoFlow
                        ELSE Flow("change", "confirm", newPassword, 0)]
        /\ notice' = IF newPassword = Cancel THEN Silent("change") ELSE notice
        /\ UNCHANGED <<localStorage, dm, sm, locked, pwSet>>

\* showChangePasswordModal resumed by its last prompt resolving with confirmPassword.
ChangeConfirmWith(i, confirmPassword) ==
    /\ ~locked
    /\ At(i, "change", "confirm")
    /\ IF flows[i].pw # confirmPassword
       THEN /\ flows' = [flows EXCEPT ![i] = NoFlow]
            /\ notice' = showAlert("change", "New passwords do not match!")
       ELSE /\ flows' = [flows EXCEPT ![i] = Flow("change", "deriveNew", flows[i].pw, 0)]
            /\ notice' = notice
    /\ UNCHANGED <<localStorage, dm, sm, locked, pwSet>>

ChangeConfirm ==
    \E i \in Slots, confirmPassword \in Inputs : ChangeConfirmWith(i, confirmPassword)

\* showChangePasswordModal from the new key on, in program order: the session's
\* key is set and the sweep runs (swept), the key is installed in the
\* DataManager (done). The flag is not written.
changePassword(ls, d, s, newKey) ==
    LET sm1 == [s EXCEPT !.encryptionKey = newKey]
        ls1 == reencryptAllData(ls, d, sm1)
    IN  [swept |-> [ls |-> ls1, dm |-> d, sm |-> sm1],
         done  |-> [ls |-> ls1, dm |-> setEncryptionKey(newKey), sm |-> sm1]]

ChangeCommit ==
    \E i \in Slots :
        /\ At(i, "change", "deriveNew")
        /\ LET run == changePassword(localStorage, dm, sm, deriveKey(flows[i].pw))
           IN  /\ localStorage' = run.done.ls
               /\ dm' = run.done.dm
               /\ sm' = run.done.sm
        /\ pwSet' = flows[i].pw
        /\ notice' = showAlert("change", "Password changed successfully!")
        /\ flows' = [flows EXCEPT ![i] = NoFlow]
        /\ UNCHANGED locked

\* ------------------------------------------------------------------ startup unlock
\* requestPassword at its prompt: a declined prompt locks the application.
StartupPassword ==
    \E i \in Slots, password \in Inputs :
        /\ ~locked
        /\ At(i, "startup", "password")
        /\ IF password = Cancel
           THEN /\ locked' = TRUE
                /\ flows' = [flows EXCEPT ![i] = NoFlow]
                /\ notice' = Silent("startup")
           ELSE /\ locked' = locked
                /\ flows' = [flows EXCEPT ![i] = [@ EXCEPT !.pc = "derive", !.pw = password]]
                /\ notice' = notice
        /\ UNCHANGED <<localStorage, dm, sm, pwSet>>

\* requestPassword with the verification's answer ignored: the derived key is
\* installed whatever verifyPassword said.
StartupVerifyUnchecked ==
    \E i \in Slots :
        /\ At(i, "startup", "derive")
        /\ LET key == deriveKey(flows[i].pw)
               v == verifyPassword(localStorage, sm, key)
           IN  /\ sm' = [v.sm EXCEPT !.encryptionKey = key]
               /\ dm' = setEncryptionKey(key)
               /\ flows' = [flows EXCEPT ![i] = NoFlow]
               /\ locked' = locked
               /\ notice' = Silent("startup")
        /\ UNCHANGED <<localStorage, pwSet>>

\* requestPassword from the derived key on: install the verified key, or count
\* the attempt, report it and prompt again, or lock after maxAttempts.
StartupVerify ==
    \E i \in Slots :
        /\ At(i, "startup", "derive")
        /\ LET key == deriveKey(flows[i].pw)
               v == verifyPassword(localStorage, sm, key)
               attempts == flows[i].attempts + 1
           IN  IF v.result
               THEN /\ sm' = [v.sm EXCEPT !.encryptionKey = key]
                    /\ dm' = setEncryptionKey(key)
                    /\ flows' = [flows EXCEPT ![i] = NoFlow]
                    /\ locked' = locked
                    /\ notice' = Silent("startup")
               ELSE /\ sm' = v.sm
                    /\ dm' = dm
                    /\ notice' = showAlert("startup",
                            "Incorrect password. " \o ToString(maxAttempts - attempts)
                                \o " attempts remaining.")
                    /\ IF attempts < maxAttempts
                       THEN /\ flows' = [flows EXCEPT ![i] =
                                            Flow("startup", "password", Cancel, attempts)]
                            /\ locked' = locked
                       ELSE /\ flows' = [flows EXCEPT ![i] = NoFlow]
                            /\ locked' = TRUE
        /\ UNCHANGED <<localStorage, pwSet>>

\* ------------------------------------------------------------------ specification
Next ==
    \/ Reload
    \/ SetData
    \/ RemoveData
    \/ ClearAllData
    \/ ToggleEncryption
    \/ EnablePassword
    \/ EnableConfirm
    \/ EnableCommit
    \/ DisablePassword
    \/ DisableCommit
    \/ ShowChangePasswordModal
    \/ ChangeCurrent
    \/ ChangeVerify
    \/ ChangeNew
    \/ ChangeConfirm
    \/ ChangeCommit
    \/ StartupPassword
    \/ StartupVerify

Spec == Init /\ [][Next]_vars

\* No path stores an envelope: setData stores the Promise's text instead.
NoEnvelopeStored == \A n \in Names : localStorage[n].form # "envelope"

\* ------------------------------------------------------------------ observers
\* Every object a RecordSet may hold.
AllValues == {Obj(e, b) : e \in Encs, b \in 0..(1 + NumVals)}

\* The flow in slot i is the one this step resumes.
Stepped(i) == flows'[i] # flows[i]

\* settings.encryptionEnabled as the stored settings entry carries it.
PersistedFlag ==
    localStorage["settings"].form \in {"plain", "envelope"}
        /\ localStorage["settings"].enc = "true"

\* Storage is plaintext throughout and the flag says so.
PlainState ==
    /\ localStorage["settings"].form = "plain"
    /\ localStorage["settings"].enc # "true"
    /\ \A n \in Names : localStorage[n].form \in {"absent", "plain"}

\* Storage is encrypted throughout under the installed key and the flag says so.
EncryptedState ==
    /\ dm.encryptionKey # NoKey
    /\ localStorage["settings"].form = "envelope"
    /\ localStorage["settings"].enc = "true"
    /\ \A n \in Names : localStorage[n].form # "absent" =>
            /\ localStorage[n].form = "envelope"
            /\ localStorage[n].key = dm.encryptionKey

\* ------------------------------------------------------------------ claims
\* C1: round-trip law. In every state, for every RecordSet name and every
\* value V, get(name) right after set(name, V) returns V, with or without a
\* key installed.
C1_RoundTrip ==
    \A n \in Names, v \in AllValues :
        getData(setData(localStorage, n, v, dm, sm), n, dm, sm) = v

\* C2: a step that completes an enable, disable or change-password flow and
\* leaves no flow in flight leaves storage either plaintext throughout with the
\* flag false, or encrypted throughout under the installed key with the flag
\* true.
C2_FlagMatchesEntries ==
    [][(EnableCommit \/ DisableCommit \/ ChangeCommit) /\ Idle'
            => (PlainState' \/ EncryptedState')]_vars

\* C3: unlock after reload. The password of the completed enable, entered at
\* the first startup prompt after a reload, is accepted: its key is installed
\* in the Record Store and in the session and the application is not locked.
C3_UnlockAfterReload ==
    [][\A i \in Slots :
          (/\ StartupVerify
           /\ At(i, "startup", "derive")
           /\ Stepped(i)
           /\ flows[i].attempts = 0
           /\ pwSet # 0
           /\ flows[i].pw = pwSet)
          => /\ dm' = setEncryptionKey(deriveKey(pwSet))
             /\ sm'.encryptionKey = deriveKey(pwSet)
             /\ sm'.isEncryptionEnabled
             /\ ~locked']_vars

\* C4: enable then disable. A disable flow given the password whose key the
\* enable installed ends with the persisted flag false, no key installed in
\* the Record Store or the session, and every entry stored as plaintext.
C4_EnableThenDisable ==
    [][\A i \in Slots :
          (/\ DisableCommit
           /\ At(i, "disable", "derive")
           /\ Stepped(i)
           /\ dm.encryptionKey = deriveKey(flows[i].pw)
           /\ sm.encryptionKey = deriveKey(flows[i].pw))
          => /\ PlainState'
             /\ dm' = removeEncryption
             /\ sm' = NewSecurityManager]_vars

\* C5: password change. Change-password given the password whose key is
\* installed proceeds to the new password, and when it completes with new
\* password B, verifyPassword accepts deriveKey(B) and rejects every other key.
C5_ChangePassword ==
    [][/\ \A i \in Slots :
            (/\ ChangeVerify
             /\ At(i, "change", "derive")
             /\ Stepped(i)
             /\ dm.encryptionKey = deriveKey(flows[i].pw)
             /\ sm.encryptionKey = deriveKey(flows[i].pw))
            => flows'[i].pc = "new"
       /\ ChangeCommit =>
            \A p \in Passwords :
                verifyPassword(localStorage', sm', deriveKey(p)).result <=> p = pwSet'
      ]_vars

\* C6: wrong password. A disable or change-password flow whose derived key
\* fails verifyPassword ends leaving the stored entries, the Record Store's key
\* and flag, and the session's key and flag as they were.
C6_WrongPasswordNoChange ==
    [][\A i \in Slots :
          (/\ \/ DisableCommit /\ At(i, "disable", "derive")
              \/ ChangeVerify /\ At(i, "change", "derive")
           /\ Stepped(i)
           /\ ~verifyPassword(localStorage, sm, deriveKey(flows[i].pw)).result)
          => /\ flows'[i] = NoFlow
             /\ UNCHANGED <<localStorage, dm, sm>>]_vars

\* C7: lockout boundary. At startup unlock the set password is accepted on
\* any of the three attempts and installs its key; any other password
\* counts one failure, and the application locks exactly at the third.
C7_LockoutBoundary ==
    [][\A i \in Slots :
          (StartupVerify /\ At(i, "startup", "derive") /\ Stepped(i) /\ pwSet # 0)
          => IF flows[i].pw = pwSet
             THEN /\ dm' = setEncryptionKey(deriveKey(pwSet))
                  /\ ~locked'
                  /\ flows'[i] = NoFlow
             ELSE /\ dm' = dm
                  /\ locked' = (flows[i].attempts + 1 = maxAttempts)
                  /\ flows'[i] = IF locked' THEN NoFlow
                                ELSE Flow("startup", "password", Cancel,
                                          flows[i].attempts + 1)]_vars

\* C8: AppLocked is entered only by the third failed verification of the
\* startup unlock, and once entered nothing changes the Record Store's key or
\* the session's flag and key until a reload.
C8_LockedOnlyByExhaustion ==
    [][/\ (~locked /\ locked') =>
            \E i \in Slots :
                /\ At(i, "startup", "derive")
                /\ flows[i].attempts = maxAttempts - 1
                /\ ~verifyPassword(localStorage, sm, deriveKey(flows[i].pw)).result
       /\ (locked /\ locked') => UNCHANGED <<dm, sm>>
      ]_vars

\* C9: startup gating. A page load over settings that report
\* encryptionEnabled = true leaves the session flagged encrypted with no key
\* and requestPassword at its prompt; requestPassword installs a key in the
\* Record Store only when verifyPassword answered true for that key, and
\* leaves the Record Store alone when it answered false.
C9_StartupGating ==
    [][/\ (Reload /\ PersistedFlag) =>
            /\ sm' = [isEncryptionEnabled |-> TRUE, encryptionKey |-> NoKey]
            /\ dm' = NewDataManager
            /\ flows'[1] = Flow("startup", "password", Cancel, 0)
            /\ ~locked'
       /\ \A i \in Slots :
            (StartupVerify /\ At(i, "startup", "derive") /\ Stepped(i)) =>
                LET key == deriveKey(flows[i].pw)
                    ok == verifyPassword(localStorage, sm, key).result
                IN  /\ ok => dm' = setEncryptionKey(key)
                    /\ ~ok => dm' = dm
      ]_vars

\* A startup unlock has rejected a password and prompts again, no key installed.
C9_Witness ==
    \E i \in Slots :
        /\ At(i, "startup", "password")
        /\ flows[i].attempts >= 1
        /\ PersistedFlag
        /\ sm.isEncryptionEnabled
        /\ dm = NewDataManager

\* C11: confirmation mismatch aborts. In enable, and in change-password after
\* the current password was verified, a confirmation that differs from the new
\* password ends the flow with the mismatch notification and leaves the stored
\* entries (the persisted flag among them), the session's flag and key and the
\* Record Store's key as they were; the steps of the flow before the
\* confirmation leave them alone too.
C11_MismatchAborts ==
    [][/\ \A i \in Slots, c \in Inputs :
            /\ (EnableConfirmWith(i, c) /\ c # flows[i].pw) =>
                    /\ flows'[i] = NoFlow
                    /\ notice' = showAlert("enable", "Passwords do not match!")
                    /\ UNCHANGED <<localStorage, dm, sm>>
            /\ (ChangeConfirmWith(i, c) /\ c # flows[i].pw) =>
                    /\ flows'[i] = NoFlow
                    /\ notice' = showAlert("change", "New passwords do not match!")
                    /\ UNCHANGED <<localStorage, dm, sm>>
       /\ (EnablePassword \/ ChangeCurrent \/ ChangeNew) =>
            UNCHANGED <<localStorage, dm, sm>>
       /\ \A i \in Slots :
            (ChangeVerify /\ At(i, "change", "derive") /\ flows'[i].pc = "new") =>
                UNCHANGED <<localStorage, dm, sm>>
      ]_vars

\* A change-password flow, its current password verified, has just ended on a
\* confirmation that did not match while encryption stays enabled.
C11_Witness ==
    /\ notice = showAlert("change", "New passwords do not match!")
    /\ Idle
    /\ sm.isEncryptionEnabled
    /\ dm.encryptionKey # NoKey

\* C12: cancellation. In the enable, disable and change-password flows a
\* declined prompt ends the flow; the stored entries, the session's flag and
\* key, the Record Store's key and the lock are as they were, and no step of
\* the flow up to a prompt has changed them.
C12_Cancellation ==
    [][/\ \A i \in Slots :
            /\ (/\ EnablePassword \/ DisablePassword \/ ChangeCurrent \/ ChangeNew
                /\ flows[i] # NoFlow
                /\ flows'[i] = NoFlow) =>
                    /\ notice' = Silent(flows[i].kind)
                    /\ UNCHANGED <<localStorage, dm, sm, locked>>
            /\ (EnableConfirmWith(i, Cancel) \/ ChangeConfirmWith(i, Cancel)) =>
                    /\ flows'[i] = NoFlow
                    /\ UNCHANGED <<localStorage, dm, sm, locked>>
            /\ (ChangeVerify /\ At(i, "change", "derive") /\ flows'[i].pc = "new") =>
                    UNCHANGED <<localStorage, dm, sm, locked>>
       /\ (\/ ToggleEncryption \/ ShowChangePasswordModal
           \/ EnablePassword \/ EnableConfirm \/ DisablePassword
           \/ ChangeCurrent \/ ChangeNew \/ ChangeConfirm) =>
                UNCHANGED <<localStorage, dm, sm, locked>>
      ]_vars

\* A disable flow has just ended on a declined prompt and encryption is still
\* enabled with its key installed.
C12_Witness ==
    /\ notice = Silent("disable")
    /\ Idle
    /\ ~locked
    /\ sm.isEncryptionEnabled
    /\ dm.encryptionKey # NoKey
    /\ pwSet # 0

\* C13: commit ordering. In an enable and in a disable flow the write of the
\* settings with the flag comes after the sweep and is the last state change:
\* the stored entries, the Record Store's key and the session's key right
\* after that write are those the flow ends with.
C13_CommitOrdering ==
    [][\A i \in Slots :
          /\ (EnableCommit /\ At(i, "enable", "derive") /\ Stepped(i)) =>
                LET run == enableEncryption(localStorage, dm, sm, deriveKey(flows[i].pw))
                IN  /\ \A n \in Names \ {"settings"} : run.flagged.ls[n] = run.swept.ls[n]
                    /\ run.flagged.ls = localStorage'
                    /\ run.flagged.dm = dm'
                    /\ run.flagged.sm.encryptionKey = sm'.encryptionKey
          /\ (/\ DisableCommit /\ At(i, "disable", "derive") /\ Stepped(i)
              /\ verifyPassword(localStorage, sm, deriveKey(flows[i].pw)).result) =>
                LET run == disableEncryption(localStorage, sm)
                IN  /\ \A n \in Names \ {"settings"} : run.flagged.ls[n] = run.swept.ls[n]
                    /\ run.flagged.ls = localStorage'
                    /\ run.flagged.dm = dm'
                    /\ run.flagged.sm.encryptionKey = sm'.encryptionKey
      ]_vars

\* C14: failure mid-way. A disable flow whose sweep fails to decrypt some
\* listed entry is treated as failed: it does not report success, the stored
\* settings and the session's flag keep their values from before the flow.
C14_FailureMidWay ==
    [][\A i \in Slots :
          (/\ DisableCommit /\ At(i, "disable", "derive") /\ Stepped(i)
           /\ verifyPassword(localStorage, sm, deriveKey(flows[i].pw)).result
           /\ \E n \in getAllKeys(localStorage) :
                    ~SMdecryptData(sm.encryptionKey, localStorage[n]).ok) =>
                /\ notice' # showAlert("disable", "Encryption disabled successfully!")
                /\ localStorage'["settings"] = localStorage["settings"]
                /\ sm'.isEncryptionEnabled = sm.isEncryptionEnabled
      ]_vars

\* C15: sweep coverage. Right after the sweep of an enable or a
\* change-password flow, every name that getAllKeys listed when the sweep
\* started holds the envelope, under the new key, of the value getData
\* returned for it before the sweep.
C15_SweepCoverage ==
    [][\A i \in Slots :
          /\ (EnableCommit /\ At(i, "enable", "derive") /\ Stepped(i)) =>
                LET key == deriveKey(flows[i].pw)
                    run == enableEncryption(localStorage, dm, sm, key)
                IN  \A n \in getAllKeys(localStorage) :
                        run.swept.ls[n] =
                            SMencryptData(key, getData(localStorage, n, dm, sm))
          /\ (ChangeCommit /\ At(i, "change", "deriveNew") /\ Stepped(i)) =>
                LET key == deriveKey(flows[i].pw)
                    run == changePassword(localStorage, dm, sm, key)
                IN  \A n \in getAllKeys(localStorage) :
                        run.swept.ls[n] =
                            SMencryptData(key, getData(localStorage, n, dm, sm))
      ]_vars

\* C16: one flow at a time. In every state at most one of the enable,
\* disable, change-password and startup-unlock flows is in flight.
C16_OneFlowAtATime == Cardinality({i \in Slots : flows[i] # NoFlow}) <= 1

\* C17: in every state and for every name, getData returns null when nothing
\* is stored under the name, null when the stored entry cannot be decrypted
\* (a key is installed) or parsed (no key is installed), and the stored value
\* itself otherwise.
C17_GetNullOnFailure ==
    \A n \in Names :
        LET entry == localStorage[n]
            r == IF dm.isEncrypted /\ dm.encryptionKey # NoKey
                 THEN SMdecryptData(dm.encryptionKey, entry)
                 ELSE JSONparse(entry)
        IN  getData(localStorage, n, dm, sm) =
                IF entry.form = "absent" \/ ~r.ok THEN Null ELSE r.val

\* C18: in every state, for every name and value, setData returns true only
\* when the entry then stored is the value's serialization in the form of the
\* current encryption state (an envelope under the installed key, or JSON
\* text without a key); when storage refuses the write it returns false and
\* the stored entries are as before.
C18_SetReportsOutcome ==
    \A n \in Names, v \in AllValues, throws \in BOOLEAN :
        LET out == setDataOutcome(localStorage, n, v, dm, sm, throws)
            required == IF dm.isEncrypted /\ dm.encryptionKey # NoKey
                        THEN SMencryptData(dm.encryptionKey, v)
                        ELSE JSONstringify(v)
        IN  /\ out.result => out.ls[n] = required
            /\ throws => ~out.result
            /\ ~out.result => out.ls = localStorage

\* C19: defaults only fill gaps. The construction of the Record Store at a
\* page load leaves every entry that is stored as it is, readable or not, and
\* writes a default only under a default name that has none.
C19_DefaultsFillGaps ==
    [][Reload =>
          \A n \in Names :
              /\ localStorage[n].form # "absent" => localStorage'[n] = localStorage[n]
              /\ (localStorage[n].form = "absent" /\ n \in DefaultNames) =>
                    localStorage'[n] = JSONstringify(Default(n))
      ]_vars

\* C20: clearAll resets the namespace. After clearAllData the listed names
\* are exactly the default names and getData of each returns its default
\* value; every other name is gone.
C20_ClearAllResets ==
    [][ClearAllData =>
          /\ getAllKeys(localStorage') = Names \cap DefaultNames
          /\ \A n \in Names \cap DefaultNames :
                getData(localStorage', n, dm', sm') = Default(n)
      ]_vars

\* ------------------------------------------------------------------ verifyPassword alone
\* verifyPassword is a function of the stored settings entry and the candidate
\* key. SpecVerify draws the entry from every text the serialisers of the code
\* produce (JSON text, the envelope encryptData fulfils with under each key,
\* the text of a Promise, none) and applies verifyPassword to it.
SettingsTexts ==
    {Absent, PromiseText, PlainText("true", 1), PlainText("false", 1)}
        \cup {SMencryptData(k, Obj(e, 1)) : k \in Keys, e \in {"true", "false"}}

DataTexts ==
    {Absent, PlainText("undef", 1)} \cup {SMencryptData(k, Obj("undef", 1)) : k \in Keys}

InitVerify ==
    /\ localStorage \in {ls \in [Names -> SettingsTexts \cup DataTexts] :
            /\ ls["settings"] \in SettingsTexts
            /\ \A n \in Names \ {"settings"} : ls[n] \in DataTexts}
    /\ dm \in {NewDataManager} \cup {setEncryptionKey(k) : k \in Keys}
    /\ sm \in {s \in [isEncryptionEnabled : BOOLEAN, encryptionKey : Keys \cup {NoKey}] :
                    s.encryptionKey = dm.encryptionKey}
    /\ flows = [i \in Slots |-> NoFlow]
    /\ locked = FALSE
    /\ pwSet = 0
    /\ notice = NoNotice

VerifyStep ==
    \E key \in Keys :
        /\ sm' = verifyPassword(localStorage, sm, key).sm
        /\ UNCHANGED <<localStorage, dm, flows, locked, pwSet, notice>>

NextVerify == VerifyStep

SpecVerify == InitVerify /\ [][NextVerify]_vars

\* C10: verification soundness. For every candidate key K, verifyPassword(K)
\* answers true exactly when no settings entry is stored or the stored settings
\* entry is an envelope encrypted under K, and it never throws.
C10_VerifySound ==
    \A k \in Keys :
        LET v == verifyPassword(localStorage, sm, k)
        IN  /\ ~v.threw
            /\ v.result <=>
                  \/ localStorage["settings"].form = "absent"
                  \/ /\ localStorage["settings"].form = "envelope"
                     /\ localStorage["settings"].key = k

\* The settings are encrypted under one key and a candidate for another key has
\* just been tried and rejected: the session holds the rejected candidate, which
\* is not the key the record store was given.
C10_Witness ==
    /\ localStorage["settings"].form = "envelope"
    /\ sm.encryptionKey # NoKey
    /\ sm.encryptionKey # dm.encryptionKey
    /\ sm.encryptionKey # localStorage["settings"].key
    /\ ~verifyPassword(localStorage, sm, sm.encryptionKey).result
    /\ verifyPassword(localStorage, sm, localStorage["settings"].key).result

\* ------------------------------------------------------------------ record operations
\* The operations on the contents of one RecordSet are checked each under a
\* specification of its own: storage holds the settings and that RecordSet,
\* whose content (the body of its value) is the list the source keeps in it.
\* The session is the one of Spec: it starts without encryption and a whole
\* enable flow, run without interleaving, installs a key.
MaxItems == 2
MaxAmount == 2
MaxDetails == 2

\* toggleEncryption run to its end: the same password entered at both prompts.
EnableFlow ==
    \E password \in Passwords :
        /\ ~sm.isEncryptionEnabled
        /\ LET run == enableEncryption(localStorage, dm, sm, deriveKey(password))
           IN  /\ localStorage' = run.done.ls
               /\ dm' = run.done.dm
               /\ sm' = run.done.sm
        /\ pwSet' = password
        /\ notice' = showAlert("enable", "Encryption enabled successfully!")
        /\ UNCHANGED <<flows, locked>>

\* Storage after the first page load: the default settings and the default
\* (empty) list under name.
InitRecords(name) ==
    /\ localStorage = [n \in {"settings", name} |->
                          IF n = "settings" THEN JSONstringify(Default(n))
                          ELSE PlainText("undef", <<>>)]
    /\ dm = NewDataManager
    /\ sm = NewSecurityManager
    /\ flows = [i \in Slots |-> NoFlow]
    /\ locked = FALSE
    /\ pwSet = 0
    /\ notice = NoNotice

\* this.getData(name) || { <list>: [] }, and the list read off it: reading a
\* property of an object gives the list, reading it off a Promise gives
\* undefined, and the first method called on undefined throws a TypeError.
listOf(ls, name, d, s) ==
    LET got == getData(ls, name, d, s)
        data == IF Truthy(got) THEN got ELSE Obj("undef", <<>>)
    IN  [ok |-> data.t = "obj",
         data |-> data,
         list |-> IF data.t = "obj" THEN data.body ELSE <<>>]

\* The outcome of an operation: storage afterwards and what the caller gets.
Returned(ls, result) == [ls |-> ls, result |-> result]

Threw(ls) == [ls |-> ls, result |-> "TypeError"]

\* this.setData(name, data) with data's list replaced; its value is returned.
storeList(ls, name, data, list, d, s) ==
    Returned(setData(ls, name, Obj(data.enc, list), d, s), "true")

RECURSIVE SumSeq(_)
SumSeq(q) == IF q = <<>> THEN 0 ELSE Head(q) + SumSeq(Tail(q))

IndexOf(list, id) ==
    IF \E k \in 1..Len(list) : list[k].id = id
    THEN CHOOSE k \in 1..Len(list) :
            list[k].id = id /\ \A j \in 1..(k - 1) : list[j].id # id
    ELSE 0

Splice(list, k) == [j \in 1..(Len(list) - 1) |-> IF j < k THEN list[j] ELSE list[j + 1]]

\* ------------------------------------------------------------------ goals
GoalIds == 1..(MaxItems + 1)

\* The lists of amounts a caller passes as savingsDetails.
Details == UNION {[1..k -> 1..MaxAmount] : k \in 0..MaxDetails}

\* The goal objects a caller passes: they may carry saved and savingsDetails.
GoalInputs == [id : {0}, saved : {0, MaxAmount}, savingsDetails : {<<>>, <<MaxAmount>>}]

\* DataManager.addGoal(goal); id is what generateId returns.
addGoal(ls, goal, id, d, s) ==
    LET r == listOf(ls, "goals", d, s)
    IN  IF ~r.ok THEN Threw(ls)
        ELSE storeList(ls, "goals", r.data,
                       Append(r.list, [goal EXCEPT !.id = id, !.saved = 0,
                                                   !.savingsDetails = <<>>]), d, s)

deleteGoal(ls, goalId, d, s) ==
    LET r == listOf(ls, "goals", d, s)
        goalIndex == IndexOf(r.list, goalId)
    IN  IF ~r.ok THEN Threw(ls)
        ELSE IF goalIndex = 0 THEN Returned(ls, "false")
        ELSE storeList(ls, "goals", r.data, Splice(r.list, goalIndex), d, s)

updateGoalSavings(ls, goalId, savingsDetails, d, s) ==
    LET r == listOf(ls, "goals", d, s)
        goalIndex == IndexOf(r.list, goalId)
    IN  IF ~r.ok THEN Threw(ls)
        ELSE IF goalIndex = 0 THEN Returned(ls, "false")
        ELSE storeList(ls, "goals", r.data,
                       [r.list EXCEPT ![goalIndex] =
                            [@ EXCEPT !.savingsDetails = savingsDetails,
                                      !.saved = SumSeq(savingsDetails)]], d, s)

\* The goals the stored entry holds, when it is JSON text.
StoredList(name) ==
    IF localStorage[name].form = "plain" THEN localStorage[name].body ELSE <<>>

InitGoals == InitRecords("goals")

AddGoal ==
    \E goal \in GoalInputs, id \in GoalIds :
        /\ Len(StoredList("goals")) < MaxItems
        /\ \A k \in 1..Len(StoredList("goals")) : StoredList("goals")[k].id # id
        /\ localStorage' = addGoal(localStorage, goal, id, dm, sm).ls
        /\ UNCHANGED <<dm, sm, flows, locked, pwSet, notice>>

DeleteGoal ==
    \E goalId \in GoalIds :
        /\ localStorage' = deleteGoal(localStorage, goalId, dm, sm).ls
        /\ UNCHANGED <<dm, sm, flows, locked, pwSet, notice>>

UpdateGoalSavings ==
    \E goalId \in GoalIds, savingsDetails \in Details :
        /\ localStorage' = updateGoalSavings(localStorage, goalId, savingsDetails, dm, sm).ls
        /\ UNCHANGED <<dm, sm, flows, locked, pwSet, notice>>

NextGoals ==
    \/ AddGoal
    \/ DeleteGoal
    \/ UpdateGoalSavings
    \/ EnableFlow

SpecGoals == InitGoals /\ [][NextGoals]_vars

\* C21: goal savings. Every stored goal has saved equal to the sum of its
\* savingsDetails; addGoal stores the new goal with saved = 0 and no
\* savingsDetails whatever the caller passed; updateGoalSavings with an id no
\* goal has returns false and leaves storage as it is.
C21_GoalSavings ==
    /\ \A k \in 1..Len(StoredList("goals")) :
            StoredList("goals")[k].saved = SumSeq(StoredList("goals")[k].savingsDetails)
    /\ \A goal \in GoalInputs :
            LET out == addGoal(localStorage, goal, 0, dm, sm)
            IN  out.result = "true" /\ out.ls["goals"].form = "plain" =>
                    LET new == out.ls["goals"].body[Len(out.ls["goals"].body)]
                    IN  new.saved = 0 /\ new.savingsDetails = <<>>
    /\ \A savingsDetails \in Details :
            LET out == updateGoalSavings(localStorage, 0, savingsDetails, dm, sm)
            IN  out.result = "false" /\ out.ls = localStorage

\* ------------------------------------------------------------------ assets
\* The assets list of the "assets" RecordSet. The history list next to it is
\* only ever appended to and never read by addAsset or deleteAsset; it is
\* left out. A field an object does not have is 0.
MaxTime == 2

AssetNames == 1..MaxItems

Times == 1..MaxTime

\* The asset objects handleAssetSubmit builds: name, type and value only.
AssetInputs == [name : AssetNames, value : 1..MaxAmount, id : {0}, created : {0},
                lastUpdated : {0}]

NameIndex(list, name) ==
    IF \E k \in 1..Len(list) : list[k].name = name
    THEN CHOOSE k \in 1..Len(list) :
            list[k].name = name /\ \A j \in 1..(k - 1) : list[j].name # name
    ELSE 0

\* DataManager.addAsset(asset) at time now; id is what generateId returns.
addAsset(ls, asset, id, now, d, s) ==
    LET r == listOf(ls, "assets", d, s)
        existingIndex == NameIndex(r.list, asset.name)
    IN  IF ~r.ok THEN Threw(ls)
        ELSE IF existingIndex # 0
        THEN storeList(ls, "assets", r.data,
                       [r.list EXCEPT ![existingIndex] =
                            [asset EXCEPT !.lastUpdated = now]], d, s)
        ELSE storeList(ls, "assets", r.data,
                       Append(r.list, [asset EXCEPT !.id = id, !.created = now,
                                                    !.lastUpdated = now]), d, s)

deleteAsset(ls, assetName, d, s) ==
    LET r == listOf(ls, "assets", d, s)
        assetIndex == NameIndex(r.list, assetName)
    IN  IF ~r.ok THEN Threw(ls)
        ELSE IF assetIndex = 0 THEN Returned(ls, "false")
        ELSE storeList(ls, "assets", r.data, Splice(r.list, assetIndex), d, s)

InitAssets == InitRecords("assets")

AddAsset ==
    \E asset \in AssetInputs, id \in GoalIds, now \in Times :
        /\ \A k \in 1..Len(StoredList("assets")) : StoredList("assets")[k].id # id
        /\ localStorage' = addAsset(localStorage, asset, id, now, dm, sm).ls
        /\ UNCHANGED <<dm, sm, flows, locked, pwSet, notice>>

DeleteAsset ==
    \E assetName \in AssetNames :
        /\ localStorage' = deleteAsset(localStorage, assetName, dm, sm).ls
        /\ UNCHANGED <<dm, sm, flows, locked, pwSet, notice>>

NextAssets ==
    \/ AddAsset
    \/ DeleteAsset
    \/ EnableFlow

SpecAssets == InitAssets /\ [][NextAssets]_vars

\* C25: asset identity. Every stored asset carries an id, a created and a
\* lastUpdated timestamp, and addAsset on a name that already exists sets that
\* asset's value and lastUpdated and keeps its id and created.
C25_AssetIdentity ==
    /\ \A k \in 1..Len(StoredList("assets")) :
            /\ StoredList("assets")[k].id # 0
            /\ StoredList("assets")[k].created # 0
            /\ StoredList("assets")[k].lastUpdated # 0
    /\ \A asset \in AssetInputs, now \in Times :
            LET k == NameIndex(StoredList("assets"), asset.name)
                out == addAsset(localStorage, asset, 0, now, dm, sm)
            IN  k # 0 /\ out.result = "true" /\ out.ls["assets"].form = "plain" =>
                    /\ out.ls["assets"].body[k].value = asset.value
                    /\ out.ls["assets"].body[k].lastUpdated = now
                    /\ out.ls["assets"].body[k].id = StoredList("assets")[k].id
                    /\ out.ls["assets"].body[k].created = StoredList("assets")[k].created

\* ------------------------------------------------------------------ expenses
\* The expenses list of the "expenses" RecordSet. A date is the number of its
\* month (every date of one month has the same "YYYY-MM" prefix, which is all
\* getExpensesByMonth looks at); month 0 is before every month the user enters.
MaxMonth == 2

Months == 1..MaxMonth

ExpenseDescriptions == 1..MaxItems

ExpenseTypes == {"Fixed", "Variable"}

\* The expense objects handleExpenseSubmit builds.
ExpenseInputs == [description : ExpenseDescriptions, amount : 1..MaxAmount,
                  type : ExpenseTypes, date : Months, id : {0}]

\* generateId: a text derived from the clock and a random number; an id no
\* stored expense has.
generateId(list) ==
    CHOOSE id \in 1..(Len(list) + 1) :
        /\ \A k \in 1..Len(list) : list[k].id # id
        /\ \A smaller \in 1..(id - 1) : \E k \in 1..Len(list) : list[k].id = smaller

addExpense(ls, expense, d, s) ==
    LET r == listOf(ls, "expenses", d, s)
    IN  IF ~r.ok THEN Threw(ls)
        ELSE storeList(ls, "expenses", r.data,
                       Append(r.list, [expense EXCEPT !.id = generateId(r.list)]), d, s)

deleteExpense(ls, expenseId, d, s) ==
    LET r == listOf(ls, "expenses", d, s)
        expenseIndex == IndexOf(r.list, expenseId)
    IN  IF ~r.ok THEN Threw(ls)
        ELSE IF expenseIndex = 0 THEN Returned(ls, "false")
        ELSE storeList(ls, "expenses", r.data, Splice(r.list, expenseIndex), d, s)

\* getExpensesByMonth: the expenses of one month, or a TypeError when the
\* list cannot be read (getExpenses calls sort on it). The order getExpenses
\* sorts into is the stored one for the expenses of one month.
getExpensesByMonth(ls, month, d, s) ==
    LET r == listOf(ls, "expenses", d, s)
    IN  [ok |-> r.ok, list |-> SelectSeq(r.list, LAMBDA e : e.date = month)]

\* The forEach of copyFixedExpenses over the previous month's Fixed expenses.
RECURSIVE copyLoop(_, _, _, _, _, _)
copyLoop(ls, fixedExpenses, copiedCount, now, d, s) ==
    IF fixedExpenses = <<>> THEN [ls |-> ls, copiedCount |-> copiedCount, threw |-> FALSE]
    ELSE LET expense == Head(fixedExpenses)
             currentExpenses == getExpensesByMonth(ls, now, d, s)
             exists == \E k \in 1..Len(currentExpenses.list) :
                          /\ currentExpenses.list[k].description = expense.description
                          /\ currentExpenses.list[k].type = "Fixed"
             added == addExpense(ls, [description |-> expense.description,
                                      amount |-> expense.amount, type |-> "Fixed",
                                      date |-> now, id |-> 0], d, s)
         IN  IF ~currentExpenses.ok
             THEN [ls |-> ls, copiedCount |-> copiedCount, threw |-> TRUE]
             ELSE IF exists THEN copyLoop(ls, Tail(fixedExpenses), copiedCount, now, d, s)
             ELSE IF added.result = "TypeError"
             THEN [ls |-> ls, copiedCount |-> copiedCount, threw |-> TRUE]
             ELSE copyLoop(added.ls, Tail(fixedExpenses), copiedCount + 1, now, d, s)

\* DataManager.copyFixedExpenses() called in month now.
copyFixedExpenses(ls, now, d, s) ==
    LET prevMonthExpenses == getExpensesByMonth(ls, now - 1, d, s)
        fixedExpenses == SelectSeq(prevMonthExpenses.list, LAMBDA e : e.type = "Fixed")
    IN  IF ~prevMonthExpenses.ok THEN [ls |-> ls, copiedCount |-> 0, threw |-> TRUE]
        ELSE copyLoop(ls, fixedExpenses, 0, now, d, s)

\* The list a stored entry holds, when it is JSON text.
ListIn(ls, name) == IF ls[name].form = "plain" THEN ls[name].body ELSE <<>>

InitExpenses == InitRecords("expenses")

AddExpense ==
    \E expense \in ExpenseInputs :
        /\ Len(StoredList("expenses")) < MaxItems
        /\ localStorage' = addExpense(localStorage, expense, dm, sm).ls
        /\ UNCHANGED <<dm, sm, flows, locked, pwSet, notice>>

DeleteExpense ==
    \E k \in 1..Len(StoredList("expenses")) :
        /\ localStorage' = deleteExpense(localStorage, StoredList("expenses")[k].id, dm, sm).ls
        /\ UNCHANGED <<dm, sm, flows, locked, pwSet, notice>>

CopyFixedExpenses ==
    \E now \in Months :
        /\ localStorage' = copyFixedExpenses(localStorage, now, dm, sm).ls
        /\ UNCHANGED <<dm, sm, flows, locked, pwSet, notice>>

NextExpenses ==
    \/ AddExpense
    \/ DeleteExpense
    \/ CopyFixedExpenses
    \/ EnableFlow

SpecExpenses == InitExpenses /\ [][NextExpenses]_vars

\* C30: copyFixedExpenses is idempotent within a month. In any month, a second
\* call right after the first adds no expense and returns 0; the first call
\* adds at most one Fixed expense per description to the current month; and
\* every expense stored before the call is stored unchanged after it.
C30_CopyIdempotent ==
    \A now \in Months :
        LET before == StoredList("expenses")
            first == copyFixedExpenses(localStorage, now, dm, sm)
            second == copyFixedExpenses(first.ls, now, dm, sm)
            after == ListIn(first.ls, "expenses")
        IN  /\ ~first.threw
            /\ ~second.threw /\ second.copiedCount = 0 /\ second.ls = first.ls
            /\ Len(after) = Len(before) + first.copiedCount
            /\ SubSeq(after, 1, Len(before)) = before
            /\ \A j, k \in (Len(before) + 1)..Len(after) :
                    /\ after[j].type = "Fixed" /\ after[j].date = now
                    /\ after[j].description = after[k].description => j = k
            /\ \A k \in (Len(before) + 1)..Len(after) :
                    \A j \in 1..Len(before) :
                        ~(/\ before[j].date = now /\ before[j].type = "Fixed"
                          /\ before[j].description = after[k].description)

\* ------------------------------------------------------------------ claims on the whole application, continued
\* C26: key agreement. Whenever no flow is in flight and the Record Store has
\* a key installed, the session's key (the one encryptData and decryptData
\* use) is that same key.
C26_KeyAgreement ==
    (Idle /\ dm.encryptionKey # NoKey) => sm.encryptionKey = dm.encryptionKey

\* C29: no plaintext write while locked. While the stored settings carry
\* encryptionEnabled = true and no key is installed yet (a page load, and
\* every step from it until the startup unlock succeeds, the locked
\* application included), no step writes an entry as plaintext.
C29_NoPlaintextWhileLocked ==
    [][(/\ PersistedFlag
        /\ \/ Reload
           \/ sm.isEncryptionEnabled /\ dm.encryptionKey = NoKey)
       => \A n \in Names :
            localStorage'[n] # localStorage[n] => localStorage'[n].form # "plain"]_vars

MetaNames == {"exportDate", "version"}

\* The names of the other fields of the encrypted backup's document.
BackupNames == {"data", "encrypted", "backupCode", "timestamp"}

\* A string or a boolean of a document: JSON.stringify gives its JSON text.
JSONValue == Obj("undef", 0)

\* DataManager.exportAllData(): getData of every listed name, then the two
\* metadata keys, assigned last.
exportAllData(ls, d, s) ==
    [n \in getAllKeys(ls) \cup MetaNames |->
        IF n \in MetaNames THEN JSONValue ELSE getData(ls, n, d, s)]

\* DataManager.importData(importedData): setData for every key of the
\* document but the two metadata keys. Storage afterwards, over the names it
\* had and the names the document brought.
importData(ls, importedData, d, s) ==
    [n \in DOMAIN ls \cup (DOMAIN importedData \ MetaNames) |->
        IF n \in DOMAIN importedData \ MetaNames
        THEN setDataText(importedData[n], d, s)
        ELSE ls[n]]

\* A document written to a file with JSON.stringify and read back with
\* JSON.parse, as exportEncryptedBackup and the app's importData do.
throughFile(document) ==
    [n \in DOMAIN document |-> JSONparse(JSONstringify(document[n])).val]

\* SecurityManager.exportEncryptedBackup(): the document of the downloaded
\* file, as read back. Its data field is the export, unencrypted.
exportEncryptedBackup(ls, d, s) ==
    [n \in BackupNames \cup {"version"} |->
        IF n = "data" THEN Obj("undef", throughFile(exportAllData(ls, d, s)))
        ELSE JSONValue]

\* settings.encryptionEnabled as the settings entry of ls carries it.
PersistedFlagIn(ls) ==
    ls["settings"].form \in {"plain", "envelope"} /\ ls["settings"].enc = "true"

\* The documents a user may import: any values for any of the names.
ImportMaps == UNION {[S -> AllValues] : S \in SUBSET Names}

\* C23: export/import round trip. In any state, importing what exportAllData
\* returns leaves getData of every name as it was and lists no new name
\* (exportDate and version are not stored), and every entry it writes is an
\* envelope under the installed key when a key is installed and JSON text
\* when none is.
C23_ExportImportRoundTrip ==
    LET document == exportAllData(localStorage, dm, sm)
        after == importData(localStorage, document, dm, sm)
    IN  /\ getAllKeys(after) = getAllKeys(localStorage)
        /\ \A n \in Names : getData(after, n, dm, sm) = getData(localStorage, n, dm, sm)
        /\ \A n \in DOMAIN document \ MetaNames :
                IF dm.encryptionKey # NoKey
                THEN after[n].form = "envelope" /\ after[n].key = dm.encryptionKey
                ELSE after[n].form \in {"plain", "null"}

\* C24: encrypted backup restore. With encryption enabled, importing the
\* document of exportEncryptedBackup into storage that has lost its
\* RecordSets gives every name the value getData returned for it at export
\* time, and lists none of data, encrypted, backupCode and timestamp.
C24_BackupRestore ==
    sm.isEncryptionEnabled =>
        LET document == exportEncryptedBackup(localStorage, dm, sm)
            after == importData([n \in Names |-> Absent], document, dm, sm)
        IN  /\ \A n \in Names : getData(after, n, dm, sm) = getData(localStorage, n, dm, sm)
            /\ getAllKeys(after) \cap BackupNames = {}

\* C27: bulk operations keep the flag consistent. In any state, after
\* clearAllData and after importData of any document, the stored
\* encryptionEnabled equals the session's flag, which equals whether the
\* Record Store has a key installed.
C27_BulkKeepsFlag ==
    \A after \in {clearAllData(localStorage, dm, sm)}
                 \cup {importData(localStorage, map, dm, sm) : map \in ImportMaps} :
        /\ PersistedFlagIn(after) = sm.isEncryptionEnabled
        /\ sm.isEncryptionEnabled = (dm.encryptionKey # NoKey)

\* ------------------------------------------------------------------ the disable sweep, await by await
\* decryptAllData awaits decryptData between reading an entry and writing it
\* back. decryptData is suspended for real only at crypto.subtle.decrypt,
\* which it reaches when a key is set and atob accepts the text: an envelope
\* and the JSON text null are base64, the JSON text of an object and
\* "[object Promise]" are not (atob throws, and the await continues within
\* the same task).
reachesDecrypt(key, entry) == key # NoKey /\ entry.form \in {"envelope", "null"}

\* The loop of decryptAllData from the i-th name on, up to the first entry
\* whose decryption is suspended (index: its place in NameSeq) or to the end
\* of the loop (index 0).
RECURSIVE sweepTo(_, _, _, _, _)
sweepTo(i, keys, ls, s, tempKey) ==
    IF i > Len(NameSeq) THEN [ls |-> ls, sm |-> s, index |-> 0]
    ELSE IF NameSeq[i] \notin keys THEN sweepTo(i + 1, keys, ls, s, tempKey)
    ELSE IF ls[NameSeq[i]].form = "absent" THEN sweepTo(i + 1, keys, ls, s, tempKey)
    ELSE IF reachesDecrypt(tempKey, ls[NameSeq[i]])
    THEN [ls |-> ls, sm |-> [s EXCEPT !.encryptionKey = tempKey], index |-> i]
    ELSE sweepTo(i + 1, keys, ls, [s EXCEPT !.encryptionKey = tempKey], tempKey)

\* The continuation writing back whatever base64 text it read, as if every
\* decryption succeeded.
resumeDecryptUnauthenticated(ls, d, s, key, rawData, tempKey) ==
    [ls |-> setData(ls, key, JSONparse(rawData).val, d,
                    [s EXCEPT !.encryptionKey = NoKey]),
     sm |-> [s EXCEPT !.encryptionKey = NoKey]]

\* The continuation of decryptAllData after the await: decryptData(rawData)
\* under tempKey has settled; on success the key is cleared and the value is
\* written back, on failure the catch logs it.
resumeDecrypt(ls, d, s, key, rawData, tempKey) ==
    LET r == SMdecryptData(tempKey, rawData)
    IN  IF r.ok
        THEN [ls |-> setData(ls, key, r.val, d, [s EXCEPT !.encryptionKey = NoKey]),
              sm |-> [s EXCEPT !.encryptionKey = NoKey]]
        ELSE [ls |-> ls, sm |-> s]

\* disableEncryption after the sweep: the flag, then the key.
disableFinish(ls, d, s) ==
    LET got == getData(ls, "settings", d, s)
        settings == WithFlag(IF Truthy(got) THEN got ELSE Obj("undef", 0), "false")
    IN  [ls |-> setData(ls, "settings", settings, d, s),
         dm |-> removeEncryption,
         sm |-> [isEncryptionEnabled |-> FALSE, encryptionKey |-> NoKey]]

\* A disable flow suspended in the sweep.
SweepFlow(password, index, keys, rawData, tempKey) ==
    [kind |-> "disable", pc |-> "decrypt", pw |-> password, attempts |-> 0,
     index |-> index, keys |-> keys, rawData |-> rawData, tempKey |-> tempKey]

\* The sweep of slot i has run to run.index with DataManager d.
SweepStepTo(i, password, keys, tempKey, run, d) ==
    IF run.index = 0
    THEN LET fin == disableFinish(run.ls, d, run.sm)
         IN  /\ localStorage' = fin.ls
             /\ dm' = fin.dm
             /\ sm' = fin.sm
             /\ notice' = showAlert("disable", "Encryption disabled successfully!")
             /\ pwSet' = 0
             /\ flows' = [flows EXCEPT ![i] = NoFlow]
    ELSE /\ localStorage' = run.ls
         /\ dm' = d
         /\ sm' = run.sm
         /\ flows' = [flows EXCEPT ![i] =
                SweepFlow(password, run.index, keys, run.ls[NameSeq[run.index]], tempKey)]
         /\ UNCHANGED <<notice, pwSet>>

\* disableEncryption from the derived key up to the first suspension of the
\* sweep, or to its end when nothing suspends it.
DisableSweepStart ==
    \E i \in Slots :
        /\ At(i, "disable", "derive")
        /\ LET v == verifyPassword(localStorage, sm, deriveKey(flows[i].pw))
               tempKey == v.sm.encryptionKey
               keys == getAllKeys(localStorage)
           IN  IF ~v.result
               THEN /\ sm' = v.sm
                    /\ notice' = showAlert("disable", "Incorrect password!")
                    /\ flows' = [flows EXCEPT ![i] = NoFlow]
                    /\ UNCHANGED <<localStorage, dm, pwSet>>
               ELSE SweepStepTo(i, flows[i].pw, keys, tempKey,
                                sweepTo(1, keys, localStorage, v.sm, tempKey),
                                removeEncryption)
        /\ UNCHANGED locked

\* crypto.subtle.decrypt has settled: the sweep goes on from the entry it was
\* suspended at.
DisableSweepResume ==
    \E i \in Slots :
        /\ At(i, "disable", "decrypt")
        /\ LET f == flows[i]
               resumed == resumeDecrypt(localStorage, dm, sm, NameSeq[f.index],
                                        f.rawData, f.tempKey)
           IN  SweepStepTo(i, f.pw, f.keys, f.tempKey,
                           sweepTo(f.index + 1, f.keys, resumed.ls, resumed.sm, f.tempKey),
                           dm)
        /\ UNCHANGED locked

\* importData of a document that carries null for a data RecordSet.
ImportNull ==
    \E n \in Names \ {"settings"} :
        /\ ~locked
        /\ localStorage' = importData(localStorage, [m \in {n} |-> Null], dm, sm)
        /\ UNCHANGED <<dm, sm, flows, locked, pwSet, notice>>

NextSweep ==
    \/ SetData
    \/ RemoveData
    \/ ImportNull
    \/ ToggleEncryption
    \/ EnablePassword
    \/ EnableConfirm
    \/ EnableCommit
    \/ DisablePassword
    \/ DisableSweepStart
    \/ DisableSweepResume

SpecSweep == Init /\ [][NextSweep]_vars

\* C28: no lost update across a sweep. When a disable flow resumes after the
\* await between reading an entry and writing it back and the entry is no
\* longer the text it read, the resumption leaves that entry as the mutation
\* wrote it, and when the flow completes with that step getData returns the
\* mutation's value.
C28_NoLostUpdate ==
    [][\A i \in Slots :
          (/\ DisableSweepResume
           /\ At(i, "disable", "decrypt")
           /\ Stepped(i)
           /\ localStorage[NameSeq[flows[i].index]] # flows[i].rawData)
          => /\ localStorage'[NameSeq[flows[i].index]]
                    = localStorage[NameSeq[flows[i].index]]
             /\ flows'[i] = NoFlow =>
                    getData(localStorage', NameSeq[flows[i].index], dm', sm')
                        = JSONparse(localStorage[NameSeq[flows[i].index]]).val]_vars

\* C28 witness: a disable flow is suspended between reading an entry and
\* writing it back, and a consumer's write of that entry has completed
\* meanwhile.
C28_Witness ==
    \E i \in Slots :
        /\ At(i, "disable", "decrypt")
        /\ localStorage[NameSeq[flows[i].index]] # flows[i].rawData
        /\ localStorage[NameSeq[flows[i].index]].form = "plain"

====
